---- MODULE Spec2Model ----
(***************************************************************************)
(* State machine of stm32pio.gui.project.ProjectListItem: the wrapper      *)
(* around one Stm32pio project.  It is built in two phases (the wrapper,   *)
(* then the project in a dedicated thread), it hands actions to a          *)
(* QThreadPool of one thread, and it relays the worker's started/finished  *)
(* signals to the front-end.                                               *)
(*                                                                         *)
(* Threads of the model: the GUI thread (run, qmlLoaded), the init thread  *)
(* (init_project, one statement per step) and the pool thread (Worker.run, *)
(* one step per signal emission and one for the invocation).  A slot is    *)
(* one atomic step: the signal emission inside it records what an observer *)
(* querying the properties in its handler sees.                            *)
(***************************************************************************)
EXTENDS Integers, Sequences, FiniteSets

VARIABLES
    project,              \* self.project: None or the Stm32pio object
    _name,                \* self._name
    _state,               \* self._state (the pseudo-stage dictionary)
    _current_stage,       \* self._current_stage
    _current_action,      \* self._current_action
    _last_action_succeed, \* self._last_action_succeed
    qml_ready,            \* self.qml_ready (threading.Event)
    _finalizer,           \* self._finalizer: None or the name at_exit will log
    project_args,         \* positional arguments given to the constructor
    init_pc,              \* position of the init thread inside init_project
    workers,              \* every Worker handed to workers_pool, in run() order
    queue,                \* workers_pool's queue of Workers waiting for the thread
    run_raised,           \* the last run() call raised instead of returning
    events,               \* signals emitted on the pool thread, in order, each
                          \* with what an observer handling it sees
    init_events,          \* signals emitted by the init thread, in order
    at_exit_pc,           \* position of the finalizer inside at_exit
    stopped,              \* logging_worker.stopped (threading.Event)
    can_flush_log,        \* logging_worker.can_flush_log (threading.Event)
    logging_thread,       \* logging_worker.thread: running or finished
    module_log,           \* records at_exit wrote to module_logger
    project_state,        \* stages the project has reached (self.project.state)
    last_query,           \* the last property the front-end read, and what it got
    max_seen              \* highest rank currentStage has returned on a project

\* State of the teardown and of the logging worker
exitVars == <<at_exit_pc, stopped, can_flush_log, logging_thread, module_log>>

\* State of the project and of the front-end's property reads
queryVars == <<project_state, last_query, max_seen>>

vars == <<project, _name, _state, _current_stage, _current_action,
          _last_action_succeed, qml_ready, _finalizer, project_args, init_pc,
          workers, queue, run_raised, events, init_events, exitVars, queryVars>>

----------------------------------------------------------------------------
(* Bounds of the model *)

\* run() calls that hand a Worker to the pool
MaxSubmit == 3

\* Number of run() calls in the behaviours with property reads
MaxQueryActions == 1

\* Highest rank of a stage the project reaches
MaxStage == 3

----------------------------------------------------------------------------
(* Values *)

None == "None"
Stm32pio == "Stm32pio"

\* Names of Stm32pio actions the front-end asks for
Actions == {"build", "clean"}

\* An action name the Stm32pio object has no attribute for
Unresolved == {"no_such_action"}

\* Positional arguments of the Stm32pio constructor: none, or the project path
ArgLists == {<<>>, <<"path/to/project">>}

\* self.project.path.name and str(self.project) of a constructed project
ProjectPathName == "project"
ProjectStr == "Stm32pio project: path/to/project"

Range(s) == {s[i] : i \in DOMAIN s}

\* No property has been read yet
NoQuery == [prop |-> "", stage |-> "", project |-> None, cur |-> ""]

\* The stages of a project, lowest rank first
Stages == <<"Empty", "Initialized", "Generated", "ToolchainReady", "Patched", "Built">>

\* The pseudo-stages, as currentStage and state show them
PseudoStages == {"Loading...", "Initializing error", "LOADING", "INIT_ERROR"}

\* Position of a name in Stages; a name that is no stage is below all of them
Rank(stage) ==
    IF \E i \in DOMAIN Stages : Stages[i] = stage
      THEN CHOOSE i \in DOMAIN Stages : Stages[i] = stage
      ELSE 0

\* str(state.current_stage): the highest stage reached, the lowest stage
\* when none is
current_stage(reached) ==
    IF reached = {}
      THEN Stages[1]
      ELSE CHOOSE stage \in reached : \A other \in reached : Rank(other) <= Rank(stage)

----------------------------------------------------------------------------
(* Signals: one record per emission.  id is the Worker the signal comes    *)
(* from; cur, last, qlen, nsub and invoked are what an observer reads while *)
(* it handles the signal: currentAction, lastActionSucceed, the length of  *)
(* the pool's queue, the number of Workers handed to the pool so far and   *)
(* whether the Worker's action has been invoked.                           *)

Emit(type, id, action, success, cur, last, qlen, invoked) ==
    [type |-> type, id |-> id, action |-> action, success |-> success,
     cur |-> cur, last |-> last, qlen |-> qlen, nsub |-> Len(workers),
     invoked |-> invoked]

\* A signal of the init thread; ready is the state of qml_ready when it is
\* emitted
EmitInit(type) == [type |-> type, ready |-> qml_ready]

----------------------------------------------------------------------------
(* The state and currentStage properties, read by the front-end *)

\* The keys of the returned dictionary that are True: the stages reached, or
\* the pseudo-stage key of self._state
stateMap ==
    IF project # None THEN project_state
    ELSE IF _state = "EMPTY" THEN {}
    ELSE {_state}

\* ProjectListItem.state: with a project, the state is computed and the
\* current stage is cached; without one the stored dictionary is returned
state ==
    /\ _current_stage' = IF project # None THEN current_stage(project_state)
                                           ELSE _current_stage
    /\ last_query' = [prop |-> "state", stage |-> _current_stage',
                      project |-> project, cur |-> _current_action]
    /\ UNCHANGED <<project, _name, _state, _current_action,
                   _last_action_succeed, qml_ready, _finalizer, project_args,
                   init_pc, workers, queue, run_raised, events, init_events,
                   exitVars, project_state, max_seen>>

\* ProjectListItem.currentStage: the cached value
currentStage == _current_stage

\* The front-end reads currentStage; max_seen is the highest rank it has
\* read while the project existed
ReadCurrentStage ==
    /\ last_query' = [prop |-> "currentStage", stage |-> currentStage,
                      project |-> project, cur |-> _current_action]
    /\ max_seen' = IF project # None /\ Rank(currentStage) > max_seen
                     THEN Rank(currentStage)
                     ELSE max_seen
    /\ UNCHANGED <<project, _name, _state, _current_stage, _current_action,
                   _last_action_succeed, qml_ready, _finalizer, project_args,
                   init_pc, workers, queue, run_raised, events, init_events,
                   exitVars, project_state>>

\* The project reaches one more stage: flags are only added
StageReached ==
    /\ project # None
    /\ \E stage \in Range(Stages) \ project_state :
         /\ Rank(stage) <= MaxStage
         /\ project_state' = project_state \cup {stage}
    /\ UNCHANGED <<project, _name, _state, _current_stage, _current_action,
                   _last_action_succeed, qml_ready, _finalizer, project_args,
                   init_pc, workers, queue, run_raised, events, init_events,
                   exitVars, last_query, max_seen>>

----------------------------------------------------------------------------
(* ProjectListItem.__init__ *)

Init ==
    /\ project = None
    /\ _name = "Loading..."
    /\ _state = "LOADING"
    /\ _current_stage = "Loading..."
    /\ _current_action = ""
    /\ _last_action_succeed = TRUE
    /\ qml_ready = FALSE
    /\ _finalizer = None
    /\ project_args \in ArgLists
    /\ init_pc = "construct"
    /\ workers = <<>>
    /\ queue = <<>>
    /\ run_raised = FALSE
    /\ events = <<>>
    /\ init_events = <<>>
    /\ at_exit_pc = "idle"
    /\ stopped = FALSE
    /\ can_flush_log = FALSE
    /\ logging_thread = "running"
    /\ module_log = <<>>
    /\ project_state = {}
    /\ last_query = NoQuery
    /\ max_seen = 0

----------------------------------------------------------------------------
(* Properties read by the front-end *)

\* ProjectListItem.name
name == IF project # None THEN ProjectPathName ELSE _name

\* ProjectListItem.currentAction
currentAction == _current_action

\* ProjectListItem.lastActionSucceed
lastActionSucceed == _last_action_succeed

----------------------------------------------------------------------------
(* ProjectListItem.init_project, run by init_thread one statement at a time *)

\* try: self.project = Stm32pio(*args, **kwargs), which returns or raises
InitConstruct ==
    /\ init_pc = "construct"
    /\ \E raised \in BOOLEAN :
         IF raised
           THEN /\ project' = project
                /\ init_pc' = "except_name"
           ELSE /\ project' = Stm32pio
                /\ init_pc' = "else_name"
    /\ UNCHANGED <<_name, _state, _current_stage, _current_action,
                   _last_action_succeed, qml_ready, _finalizer, project_args,
                   workers, queue, run_raised, events, init_events,
                   exitVars, queryVars>>

\* Mutant of InitExceptName: the placeholder is used whatever the arguments
InitExceptNameUndefined ==
    /\ init_pc = "except_name"
    /\ _name' = "Undefined"
    /\ init_pc' = "except_state"
    /\ UNCHANGED <<project, _state, _current_stage, _current_action,
                   _last_action_succeed, qml_ready, _finalizer, project_args,
                   workers, queue, run_raised, events, init_events,
                   exitVars, queryVars>>

\* except: self._name = args[0] if len(args) else 'Undefined'
InitExceptName ==
    /\ init_pc = "except_name"
    /\ _name' = IF Len(project_args) > 0 THEN project_args[1] ELSE "Undefined"
    /\ init_pc' = "except_state"
    /\ UNCHANGED <<project, _state, _current_stage, _current_action,
                   _last_action_succeed, qml_ready, _finalizer, project_args,
                   workers, queue, run_raised, events, init_events,
                   exitVars, queryVars>>

\* Mutant of InitExceptState: the failure branch resets the dictionary as the
\* success branch does
InitExceptStateEmpty ==
    /\ init_pc = "except_state"
    /\ _state' = "EMPTY"
    /\ init_pc' = "except_stage"
    /\ UNCHANGED <<project, _name, _current_stage, _current_action,
                   _last_action_succeed, qml_ready, _finalizer, project_args,
                   workers, queue, run_raised, events, init_events,
                   exitVars, queryVars>>

\* except: self._state = { 'INIT_ERROR': True }
InitExceptState ==
    /\ init_pc = "except_state"
    /\ _state' = "INIT_ERROR"
    /\ init_pc' = "except_stage"
    /\ UNCHANGED <<project, _name, _current_stage, _current_action,
                   _last_action_succeed, qml_ready, _finalizer, project_args,
                   workers, queue, run_raised, events, init_events,
                   exitVars, queryVars>>

\* except: self._current_stage = 'Initializing error'
InitExceptStage ==
    /\ init_pc = "except_stage"
    /\ _current_stage' = "Initializing error"
    /\ init_pc' = "finalizer"
    /\ UNCHANGED <<project, _name, _state, _current_action,
                   _last_action_succeed, qml_ready, _finalizer, project_args,
                   workers, queue, run_raised, events, init_events,
                   exitVars, queryVars>>

\* else: self._name = 'Project'
InitElseName ==
    /\ init_pc = "else_name"
    /\ _name' = "Project"
    /\ init_pc' = "else_state"
    /\ UNCHANGED <<project, _state, _current_stage, _current_action,
                   _last_action_succeed, qml_ready, _finalizer, project_args,
                   workers, queue, run_raised, events, init_events,
                   exitVars, queryVars>>

\* else: self._state = {}
InitElseState ==
    /\ init_pc = "else_state"
    /\ _state' = "EMPTY"
    /\ init_pc' = "else_stage"
    /\ UNCHANGED <<project, _name, _current_stage, _current_action,
                   _last_action_succeed, qml_ready, _finalizer, project_args,
                   workers, queue, run_raised, events, init_events,
                   exitVars, queryVars>>

\* else: self._current_stage = 'Initialized'
InitElseStage ==
    /\ init_pc = "else_stage"
    /\ _current_stage' = "Initialized"
    /\ init_pc' = "finalizer"
    /\ UNCHANGED <<project, _name, _state, _current_action,
                   _last_action_succeed, qml_ready, _finalizer, project_args,
                   workers, queue, run_raised, events, init_events,
                   exitVars, queryVars>>

\* finally: self._finalizer = weakref.finalize(self, self.at_exit, ..., name)
InitFinalizer ==
    /\ init_pc = "finalizer"
    /\ _finalizer' = IF project = None THEN name ELSE ProjectStr
    /\ init_pc' = "wait"
    /\ UNCHANGED <<project, _name, _state, _current_stage, _current_action,
                   _last_action_succeed, qml_ready, project_args,
                   workers, queue, run_raised, events, init_events,
                   exitVars, queryVars>>

\* Mutant of InitWait: the thread does not wait for the event
InitWaitNot ==
    /\ init_pc = "wait"
    /\ init_pc' = "initialized"
    /\ UNCHANGED <<project, _name, _state, _current_stage, _current_action,
                   _last_action_succeed, qml_ready, _finalizer, project_args,
                   workers, queue, run_raised, events, init_events,
                   exitVars, queryVars>>

\* finally: self.qml_ready.wait() returns once the event is set
InitWait ==
    /\ init_pc = "wait"
    /\ qml_ready
    /\ init_pc' = "initialized"
    /\ UNCHANGED <<project, _name, _state, _current_stage, _current_action,
                   _last_action_succeed, qml_ready, _finalizer, project_args,
                   workers, queue, run_raised, events, init_events,
                   exitVars, queryVars>>

\* One of the four emissions that end init_project
InitEmit(signal, next) ==
    /\ init_pc = signal
    /\ init_events' = Append(init_events, EmitInit(signal))
    /\ init_pc' = next
    /\ UNCHANGED <<project, _name, _state, _current_stage, _current_action,
                   _last_action_succeed, qml_ready, _finalizer, project_args,
                   workers, queue, run_raised, events,
                   exitVars, queryVars>>

\* finally: self.initialized.emit()
InitInitialized == InitEmit("initialized", "nameChanged")

\* Mutant of InitNameChanged: the emission is left out
InitNameChangedLeftOut ==
    /\ init_pc = "nameChanged"
    /\ init_pc' = "stageChanged"
    /\ UNCHANGED <<project, _name, _state, _current_stage, _current_action,
                   _last_action_succeed, qml_ready, _finalizer, project_args,
                   workers, queue, run_raised, events, init_events,
                   exitVars, queryVars>>

\* finally: self.nameChanged.emit()
InitNameChanged == InitEmit("nameChanged", "stageChanged")

\* finally: self.stageChanged.emit()
InitStageChanged == InitEmit("stageChanged", "stateChanged")

\* finally: self.stateChanged.emit()
InitStateChanged == InitEmit("stateChanged", "done")

----------------------------------------------------------------------------
(* ProjectListItem.qmlLoaded *)

qmlLoaded ==
    /\ qml_ready' = TRUE
    /\ can_flush_log' = TRUE
    /\ UNCHANGED <<project, _name, _state, _current_stage, _current_action,
                   _last_action_succeed, _finalizer, project_args, init_pc,
                   workers, queue, run_raised, events, init_events,
                   at_exit_pc, stopped, logging_thread, module_log, queryVars>>

----------------------------------------------------------------------------
(* workers_pool: a QThreadPool of maxThreadCount threads.  A Worker is      *)
(* "queued" until a thread takes it, then "start", "invoke", "finish",     *)
(* "exit" as its run() advances, and "done" once the thread has left it.   *)
(* A queued Worker that is no longer in the queue was removed by clear().  *)

\* Mutant of maxThreadCount: the pool is left with a second thread
maxThreadCountTwo == 1 + 1

\* self.workers_pool.setMaxThreadCount(1)
maxThreadCount == 1

\* Workers a pool thread is running
poolActive ==
    {i \in DOMAIN workers : workers[i].pc \in {"start", "invoke", "finish", "exit"}}

\* Workers removed from the queue before any thread took them
purged ==
    {i \in DOMAIN workers : workers[i].pc = "queued" /\ i \notin Range(queue)}

\* Mutant of poolStart: a Worker that has to wait is placed at the head of
\* the queue
poolStartAtHead(action) ==
    LET id == Len(workers) + 1
        free == Cardinality(poolActive) < maxThreadCount
    IN  /\ workers' = Append(workers,
                             [action |-> action,
                              pc |-> IF free THEN "start" ELSE "queued",
                              success |-> TRUE, invoked |-> FALSE])
        /\ queue' = IF free THEN queue ELSE <<id>> \o queue

\* Mutant of poolStart: the Worker is placed in the queue and no thread is
\* started for it
poolStartQueueOnly(action) ==
    LET id == Len(workers) + 1
    IN  /\ workers' = Append(workers,
                             [action |-> action, pc |-> "queued",
                              success |-> TRUE, invoked |-> FALSE])
        /\ queue' = Append(queue, id)

\* self.workers_pool.start(worker): runs the Worker on a free thread, or
\* places it at the end of the queue when every thread is busy
poolStart(action) ==
    LET id == Len(workers) + 1
        free == Cardinality(poolActive) < maxThreadCount
    IN  /\ workers' = Append(workers,
                             [action |-> action,
                              pc |-> IF free THEN "start" ELSE "queued",
                              success |-> TRUE, invoked |-> FALSE])
        /\ queue' = IF free THEN queue ELSE Append(queue, id)

\* self.workers_pool.clear(): drops every Worker that has not started yet
poolClear == <<>>

----------------------------------------------------------------------------
(* ProjectListItem.run *)

\* Mutant of run: the Worker is made and handed to the pool whether or not
\* the project exists
runWithoutProject(action) ==
    /\ Len(workers) < MaxSubmit
    /\ poolStart(action)
    /\ run_raised' = FALSE
    /\ UNCHANGED <<project, _name, _state, _current_stage,
                   _current_action, _last_action_succeed, qml_ready,
                   _finalizer, project_args, init_pc, events, init_events,
                   exitVars, queryVars>>

\* Mutant of run: the call waits for qml_ready before it makes the Worker
runWaitsReady(action) ==
    /\ qml_ready
    /\ IF project = None \/ action \in Unresolved
         THEN /\ run_raised' = TRUE
              /\ UNCHANGED <<project, _name, _state, _current_stage,
                             _current_action, _last_action_succeed, qml_ready,
                             _finalizer, project_args, init_pc, workers, queue,
                             events, init_events, exitVars, queryVars>>
         ELSE /\ Len(workers) < MaxSubmit
              /\ poolStart(action)
              /\ run_raised' = FALSE
              /\ UNCHANGED <<project, _name, _state, _current_stage,
                             _current_action, _last_action_succeed, qml_ready,
                             _finalizer, project_args, init_pc, events,
                             init_events, exitVars, queryVars>>

\* Mutant of run: nothing is accepted once an action has failed
runAfterFailureRefused(action) ==
    IF project = None \/ action \in Unresolved \/ ~_last_action_succeed
      THEN /\ run_raised' = TRUE
           /\ UNCHANGED <<project, _name, _state, _current_stage,
                          _current_action, _last_action_succeed, qml_ready,
                          _finalizer, project_args, init_pc, workers, queue,
                          events, init_events, exitVars, queryVars>>
      ELSE /\ Len(workers) < MaxSubmit
           /\ poolStart(action)
           /\ run_raised' = FALSE
           /\ UNCHANGED <<project, _name, _state, _current_stage,
                          _current_action, _last_action_succeed, qml_ready,
                          _finalizer, project_args, init_pc, events,
                          init_events, exitVars, queryVars>>

\* getattr(self.project, action) raises AttributeError while self.project is
\* None and when the project has no such attribute: no Worker is made.
\* Otherwise the Worker is handed to the pool.
run(action) ==
    IF project = None \/ action \in Unresolved
      THEN /\ run_raised' = TRUE
           /\ UNCHANGED <<project, _name, _state, _current_stage,
                          _current_action, _last_action_succeed, qml_ready,
                          _finalizer, project_args, init_pc, workers, queue,
                          events, init_events,
                   exitVars, queryVars>>
      ELSE /\ Len(workers) < MaxSubmit
           /\ poolStart(action)
           /\ run_raised' = FALSE
           /\ UNCHANGED <<project, _name, _state, _current_stage,
                          _current_action, _last_action_succeed, qml_ready,
                          _finalizer, project_args, init_pc, events, init_events,
                   exitVars, queryVars>>

----------------------------------------------------------------------------
(* The slots the Worker's signals are connected to *)

\* ProjectListItem.actionStartedSlot: the property is set, then the signal
\* is emitted
actionStartedSlot(action) ==
    _current_action' = action

\* self.actionStarted.emit(action), as seen by an observer handling it
actionStarted(id, action) ==
    Emit("actionStarted", id, action, TRUE, _current_action',
         _last_action_succeed, Len(queue), workers[id].invoked)

\* Mutant of actionFinishedSlot: the queue is not cleared after a failure
actionFinishedSlotNoClear(success) ==
    /\ _last_action_succeed' = success
    /\ queue' = queue
    /\ _current_action' = ""

\* Mutant of actionFinishedSlot: the property is not reset
actionFinishedSlotNoReset(success) ==
    /\ _last_action_succeed' = success
    /\ queue' = IF ~success THEN poolClear ELSE queue
    /\ _current_action' = _current_action

\* ProjectListItem.actionFinishedSlot: the result is stored, the queue is
\* cleared after a failure, the signal is emitted, the property is reset
actionFinishedSlot(success) ==
    /\ _last_action_succeed' = success
    /\ queue' = IF ~success THEN poolClear ELSE queue
    /\ _current_action' = ""

\* Mutant of actionFinished: the signal is emitted after the property is reset
actionFinishedAfterReset(id, action, success) ==
    Emit("actionFinished", id, action, success, _current_action',
         _last_action_succeed', Len(queue'), workers[id].invoked)

\* Mutant of actionFinished: the signal is emitted before the queue is cleared
actionFinishedBeforeClear(id, action, success) ==
    Emit("actionFinished", id, action, success, _current_action,
         _last_action_succeed', Len(queue), workers[id].invoked)

\* self.actionFinished.emit(action, success), as seen by an observer
\* handling it: _current_action is not reset yet
actionFinished(id, action, success) ==
    Emit("actionFinished", id, action, success, _current_action,
         _last_action_succeed', Len(queue'), workers[id].invoked)

\* worker.finished.connect(self.stateChanged) and
\* worker.finished.connect(self.stageChanged): emitted after the slot returns
finishedConnected(id, action, success) ==
    << Emit("stateChanged", id, action, success, _current_action',
            _last_action_succeed', Len(queue'), workers[id].invoked),
       Emit("stageChanged", id, action, success, _current_action',
            _last_action_succeed', Len(queue'), workers[id].invoked) >>

----------------------------------------------------------------------------
(* Worker.run on the pool thread *)

\* self.started.emit(self.name): delivered before the invocation begins
WorkerStarted(id) ==
    /\ workers[id].pc = "start"
    /\ actionStartedSlot(workers[id].action)
    /\ events' = Append(events, actionStarted(id, workers[id].action))
    /\ workers' = [workers EXCEPT ![id].pc = "invoke"]
    /\ UNCHANGED <<project, _name, _state, _current_stage,
                   _last_action_succeed, qml_ready, _finalizer, project_args,
                   init_pc, queue, run_raised, init_events,
                   exitVars, queryVars>>

\* The action is invoked; it returns normally or fails
WorkerInvoke(id) ==
    /\ workers[id].pc = "invoke"
    /\ \E success \in BOOLEAN :
         workers' = [workers EXCEPT ![id].pc = "finish",
                                    ![id].success = success,
                                    ![id].invoked = TRUE]
    /\ UNCHANGED <<project, _name, _state, _current_stage, _current_action,
                   _last_action_succeed, qml_ready, _finalizer, project_args,
                   init_pc, queue, run_raised, events, init_events,
                   exitVars, queryVars>>

\* self.finished.emit(self.name, success): the slot, then the two signals
\* connected after it
WorkerFinished(id) ==
    /\ workers[id].pc = "finish"
    /\ actionFinishedSlot(workers[id].success)
    /\ events' = Append(events,
                        actionFinished(id, workers[id].action, workers[id].success))
                 \o finishedConnected(id, workers[id].action, workers[id].success)
    /\ workers' = [workers EXCEPT ![id].pc = "exit"]
    /\ UNCHANGED <<project, _name, _state, _current_stage, qml_ready,
                   _finalizer, project_args, init_pc, run_raised, init_events,
                   exitVars, queryVars>>

\* run() has returned: the thread leaves the Worker and takes the next one
\* of the queue, if any
WorkerExit(id) ==
    /\ workers[id].pc = "exit"
    /\ IF queue # <<>>
         THEN /\ workers' = [workers EXCEPT ![id].pc = "done",
                                            ![Head(queue)].pc = "start"]
              /\ queue' = Tail(queue)
         ELSE /\ workers' = [workers EXCEPT ![id].pc = "done"]
              /\ queue' = queue
    /\ UNCHANGED <<project, _name, _state, _current_stage, _current_action,
                   _last_action_succeed, qml_ready, _finalizer, project_args,
                   init_pc, run_raised, events, init_events,
                   exitVars, queryVars>>

----------------------------------------------------------------------------
(* ProjectListItem.at_exit, the callback of weakref.finalize *)

\* Everything at_exit leaves alone
AtExitKeeps ==
    UNCHANGED <<project, _name, _state, _current_stage, _current_action,
                _last_action_succeed, qml_ready, _finalizer, project_args,
                init_pc, workers, queue, run_raised, events, init_events,
                can_flush_log, queryVars>>

\* The handle is released once init_thread, which refers to it, has ended:
\* weakref.finalize calls at_exit, and never a second time
Finalize ==
    /\ _finalizer # None
    /\ init_pc = "done"
    /\ at_exit_pc = "idle"
    /\ at_exit_pc' = "waitForDone"
    /\ UNCHANGED <<stopped, logging_thread, module_log>>
    /\ AtExitKeeps

\* Mutant of AtExitWaitForDone: at_exit does not wait for the pool
AtExitWaitForDoneNot ==
    /\ at_exit_pc = "waitForDone"
    /\ at_exit_pc' = "stopped_set"
    /\ UNCHANGED <<stopped, logging_thread, module_log>>
    /\ AtExitKeeps

\* workers_pool.waitForDone(msecs=-1) returns once no Worker runs or waits
AtExitWaitForDone ==
    /\ at_exit_pc = "waitForDone"
    /\ poolActive = {}
    /\ queue = <<>>
    /\ at_exit_pc' = "stopped_set"
    /\ UNCHANGED <<stopped, logging_thread, module_log>>
    /\ AtExitKeeps

\* logging_worker.stopped.set()
AtExitStoppedSet ==
    /\ at_exit_pc = "stopped_set"
    /\ stopped' = TRUE
    /\ at_exit_pc' = "thread_wait"
    /\ UNCHANGED <<logging_thread, module_log>>
    /\ AtExitKeeps

\* Mutant of AtExitThreadWait: at_exit does not wait for the logging thread
AtExitThreadWaitNot ==
    /\ at_exit_pc = "thread_wait"
    /\ at_exit_pc' = "log"
    /\ UNCHANGED <<stopped, logging_thread, module_log>>
    /\ AtExitKeeps

\* logging_worker.thread.wait() returns once the thread has finished
AtExitThreadWait ==
    /\ at_exit_pc = "thread_wait"
    /\ logging_thread = "finished"
    /\ at_exit_pc' = "log"
    /\ UNCHANGED <<stopped, logging_thread, module_log>>
    /\ AtExitKeeps

\* module_logger.info(f"destroyed {name}"), name being the one the finalizer
\* was registered with
AtExitLog ==
    /\ at_exit_pc = "log"
    /\ module_log' = Append(module_log, [message |-> "destroyed", name |-> _finalizer])
    /\ at_exit_pc' = "done"
    /\ UNCHANGED <<stopped, logging_thread>>
    /\ AtExitKeeps

\* The logging worker's thread ends once it finds stopped set
LoggingWorkerExit ==
    /\ logging_thread = "running"
    /\ stopped
    /\ logging_thread' = "finished"
    /\ UNCHANGED <<at_exit_pc, stopped, module_log>>
    /\ AtExitKeeps

----------------------------------------------------------------------------
(* The specification *)

InitThread ==
    \/ InitConstruct
    \/ InitExceptName
    \/ InitExceptState
    \/ InitExceptStage
    \/ InitElseName
    \/ InitElseState
    \/ InitElseStage
    \/ InitFinalizer
    \/ InitWait
    \/ InitInitialized
    \/ InitNameChanged
    \/ InitStageChanged
    \/ InitStateChanged

PoolThread ==
    \E id \in DOMAIN workers :
        \/ WorkerStarted(id)
        \/ WorkerInvoke(id)
        \/ WorkerFinished(id)
        \/ WorkerExit(id)

\* The front-end calls run() as long as it holds the handle
Submit ==
    /\ at_exit_pc = "idle"
    /\ \E action \in Actions : run(action)

Next ==
    \/ InitThread
    \/ qmlLoaded
    \/ Submit
    \/ PoolThread

Spec == Init /\ [][Next]_vars

\* The pool thread is scheduled as long as it has a step to take, and every
\* invocation returns
FairSpec == Spec /\ WF_vars(PoolThread)

\* The front-end asks for an action the project does not have
SubmitUnresolved ==
    /\ at_exit_pc = "idle"
    /\ \E action \in Unresolved : run(action)

NextResolve ==
    \/ Next
    \/ SubmitUnresolved

\* The handle with a front-end that also asks for unknown actions
SpecResolve == Init /\ [][NextResolve]_vars

\* The front-end hands over at most MaxQueryActions actions
SubmitFew ==
    /\ Len(workers) < MaxQueryActions
    /\ Submit

NextQuery ==
    \/ InitThread
    \/ qmlLoaded
    \/ SubmitFew
    \/ PoolThread
    \/ state
    \/ ReadCurrentStage
    \/ StageReached

\* The handle with a front-end that reads state and currentStage
SpecQuery == Init /\ [][NextQuery]_vars

\* The teardown
AtExit ==
    \/ Finalize
    \/ AtExitWaitForDone
    \/ AtExitStoppedSet
    \/ AtExitThreadWait
    \/ AtExitLog

NextExit ==
    \/ Next
    \/ AtExit
    \/ LoggingWorkerExit

\* The handle with its teardown
SpecExit == Init /\ [][NextExit]_vars

----------------------------------------------------------------------------
(* Vocabulary of the properties *)

IsStarted(e) == e.type = "actionStarted"
IsFinished(e) == e.type = "actionFinished"
IsStartedOrFinished(e) == IsStarted(e) \/ IsFinished(e)
IsInitialized(e) == e.type = "initialized"

\* The actionStarted signal of Worker id has been emitted
Started(id) == \E i \in DOMAIN events : IsStarted(events[i]) /\ events[i].id = id

\* The actionFinished signal of Worker id has been emitted
Finished(id) == \E i \in DOMAIN events : IsFinished(events[i]) /\ events[i].id = id

\* Actions that have started and have not finished
InFlight == {id \in DOMAIN workers : Started(id) /\ ~Finished(id)}

\* The actionFinished signals, and the actionStarted and actionFinished ones
FinishedEvents == SelectSeq(events, IsFinished)
ActionEvents == SelectSeq(events, IsStartedOrFinished)

\* Loading, InitError or Ready, as the state property shows it: the project
\* when there is one, the pseudo-stage dictionary otherwise
HandleState ==
    IF project # None THEN "Ready"
    ELSE IF _state = "LOADING" THEN "Loading"
    ELSE IF _state = "INIT_ERROR" THEN "InitError"
    ELSE "Unknown"

\* Number of signals of the given type the init thread has emitted
InitCount(type) ==
    Cardinality({i \in DOMAIN init_events : init_events[i].type = type})

\* Number of signals of the given type emitted on the pool thread
PoolCount(type) ==
    Cardinality({i \in DOMAIN events : events[i].type = type})

\* A run() call that hands a new Worker to the pool
Accepted == Submit /\ Len(workers') = Len(workers) + 1

\* The actionFinished signals that report a failure, by position in events
Failures == {i \in DOMAIN events : IsFinished(events[i]) /\ ~events[i].success}

\* The signals that end init_project, in the order of the code
InitSignals == <<"initialized", "nameChanged", "stageChanged", "stateChanged">>

----------------------------------------------------------------------------
(* C1: at most one action is in flight (started and not finished) at any   *)
(* time, whatever run() calls and worker steps came before.                *)

C1_OneInFlight == Cardinality(InFlight) <= 1

\* An action is in flight while two more wait in the queue
C1_Witness == Cardinality(InFlight) = 1 /\ Len(queue) = 2

----------------------------------------------------------------------------
(* C2: as long as no action has failed, the actionFinished signals come in *)
(* the order of the run() calls, and actionStarted and actionFinished      *)
(* alternate: no action starts between the start and the finish of another.*)

C2_FifoNoInterleaving ==
    (\A i \in DOMAIN FinishedEvents : FinishedEvents[i].success)
    => /\ \A i \in DOMAIN FinishedEvents :
             /\ FinishedEvents[i].id = i
             /\ FinishedEvents[i].action = workers[i].action
       /\ \A i \in DOMAIN ActionEvents :
             /\ ActionEvents[i].id = (i + 1) \div 2
             /\ ActionEvents[i].type =
                  IF i % 2 = 1 THEN "actionStarted" ELSE "actionFinished"

\* Three actions, all handed over before the first one finished, have
\* finished without a failure
C2_Witness ==
    /\ Len(FinishedEvents) = 3
    /\ \A i \in DOMAIN FinishedEvents : FinishedEvents[i].success
    /\ FinishedEvents[1].nsub = 3
    /\ workers[2].action # workers[3].action

----------------------------------------------------------------------------
(* C3: after actionFinished(k, false), an action handed over before that   *)
(* signal and not started by then is never started nor invoked, and the    *)
(* next actionStarted belongs to an action handed over after the signal.   *)

C3_FailurePurges ==
    \A i \in DOMAIN events :
        (IsFinished(events[i]) /\ ~events[i].success)
        => /\ \A j \in DOMAIN events :
                 (j > i /\ IsStarted(events[j])) => events[j].id > events[i].nsub
           /\ \A w \in 1..events[i].nsub :
                 (~\E j \in 1..i : IsStarted(events[j]) /\ events[j].id = w)
                 => (~workers[w].invoked /\ workers[w].pc = "queued" /\ w \in purged)

\* An action failed while another one was waiting, and an action handed over
\* after the failure has started
C3_Witness ==
    \E i \in DOMAIN events :
        /\ IsFinished(events[i]) /\ ~events[i].success
        /\ events[i].nsub > events[i].id
        /\ \E j \in DOMAIN events : j > i /\ IsStarted(events[j])

----------------------------------------------------------------------------
(* C4: currentAction is non-empty exactly when an action has started and   *)
(* has not finished.                                                       *)

C4_CurrentActionIffInFlight == (currentAction # "") <=> (InFlight # {})

\* A second action is in flight after a first one has finished
C4_Witness == currentAction # "" /\ Len(FinishedEvents) >= 1

----------------------------------------------------------------------------
(* C5: an observer handling actionStarted(name) reads currentAction = name *)
(* and the action is not invoked yet; an observer handling                 *)
(* actionFinished(name, success) reads currentAction = name and            *)
(* lastActionSucceed = success; the signals emitted right after the slot   *)
(* has returned see currentAction empty.                                   *)

C5_ObserverSees ==
    \A i \in DOMAIN events :
        /\ IsStarted(events[i])
             => (events[i].cur = events[i].action /\ ~events[i].invoked)
        /\ IsFinished(events[i])
             => /\ events[i].cur = events[i].action
                /\ events[i].last = events[i].success
                /\ events[i].invoked
                /\ i < Len(events) /\ events[i + 1].cur = ""

\* A failed action after a successful one of another name
C5_Witness ==
    /\ Len(FinishedEvents) = 2
    /\ FinishedEvents[1].success /\ ~FinishedEvents[2].success
    /\ FinishedEvents[1].action # FinishedEvents[2].action

----------------------------------------------------------------------------
(* C6: an observer handling actionFinished(name, false) finds the pool's   *)
(* queue empty.                                                            *)

C6_QueueEmptyAtFailure ==
    \A i \in DOMAIN events :
        (IsFinished(events[i]) /\ ~events[i].success) => events[i].qlen = 0

\* An action failed while two others were waiting in the queue
C6_Witness ==
    \E i \in DOMAIN events :
        /\ IsFinished(events[i]) /\ ~events[i].success
        /\ events[i].id = 1 /\ events[i].nsub = 3

----------------------------------------------------------------------------
(* C7: the handle starts in Loading, is always in one of Loading,          *)
(* InitError, Ready, leaves Loading once, for Ready or InitError, before   *)
(* init_project registers the finalizer, and never changes again.          *)

C7_InitStateOnce ==
    /\ HandleState = "Loading"
    /\ [][ /\ HandleState' \in {"Loading", "InitError", "Ready"}
           /\ (HandleState' # HandleState)
                => (HandleState = "Loading" /\ init_pc \in {"construct", "except_state"})
           /\ (init_pc' \notin {"construct", "except_name", "except_state"})
                => HandleState' # "Loading" ]_vars

\* A failed construction has been through all of init_project
C7_Witness == HandleState = "InitError" /\ init_pc = "done"

----------------------------------------------------------------------------
(* C8: initialized is emitted at most once, only with qml_ready set, and   *)
(* exactly once by the time init_project is past the emission.             *)

C8_InitializedOnceAfterReady ==
    /\ InitCount("initialized") <= 1
    /\ \A i \in DOMAIN init_events :
          IsInitialized(init_events[i]) => init_events[i].ready
    /\ (InitCount("initialized") = 1)
          <=> (init_pc \in {"nameChanged", "stageChanged", "stateChanged", "done"})

\* initialized has been emitted for a project whose construction failed
C8_Witness == InitCount("initialized") = 1 /\ project = None

----------------------------------------------------------------------------
(* C9, as stated: nameChanged, stageChanged and stateChanged are each      *)
(* emitted at most once and not before initialized, exactly once when      *)
(* init_project has ended, and no signal is emitted on the pool thread     *)
(* between initialized and the last of the three.                          *)

C9_Original ==
    /\ [](\A type \in {"nameChanged", "stageChanged", "stateChanged"} :
            /\ InitCount(type) + PoolCount(type) <= 1
            /\ (InitCount("initialized") = 0)
                 => (InitCount(type) + PoolCount(type) = 0)
            /\ (init_pc = "done") => (InitCount(type) + PoolCount(type) = 1))
    /\ [][(init_pc \in {"nameChanged", "stageChanged", "stateChanged"})
            => (events' = events)]_vars

(* C9, amended: init_project emits initialized, nameChanged, stageChanged  *)
(* and stateChanged once each, in this order, whether the construction     *)
(* succeeded or failed; nameChanged is emitted nowhere else; stateChanged  *)
(* and stageChanged are also emitted right after every actionFinished.     *)

C9_InitSignalsInOrder ==
    /\ Len(init_events) <= Len(InitSignals)
    /\ \A i \in DOMAIN init_events : init_events[i].type = InitSignals[i]
    /\ Len(init_events) =
         CASE init_pc = "nameChanged" -> 1
           [] init_pc = "stageChanged" -> 2
           [] init_pc = "stateChanged" -> 3
           [] init_pc = "done" -> 4
           [] OTHER -> 0
    /\ PoolCount("nameChanged") = 0
    /\ PoolCount("stateChanged") = PoolCount("actionFinished")
    /\ PoolCount("stageChanged") = PoolCount("actionFinished")
    /\ \A i \in DOMAIN events :
          IsFinished(events[i])
          => /\ i + 2 <= Len(events)
             /\ events[i + 1].type = "stateChanged" /\ events[i + 1].id = events[i].id
             /\ events[i + 2].type = "stageChanged" /\ events[i + 2].id = events[i].id

\* init_project has ended and two actions have finished
C9_Witness == init_pc = "done" /\ Len(FinishedEvents) = 2

----------------------------------------------------------------------------
(* C10: when the construction fails the handle ends in InitError with      *)
(* exactly one initialized signal, and as long as there is no project no   *)
(* Worker is made and no actionStarted is emitted, whether run() is called *)
(* before the failure or after it.                                         *)

C10_FailedConstruction ==
    /\ (project = None) => (workers = <<>> /\ PoolCount("actionStarted") = 0)
    /\ (project = None /\ init_pc # "construct")
         => /\ InitCount("initialized") <= 1
            /\ (init_pc \notin {"except_name", "except_state"})
                 => HandleState = "InitError"
            /\ (init_pc = "done") => InitCount("initialized") = 1

\* The construction failed, init_project has ended and run() was called
C10_Witness == project = None /\ init_pc = "done" /\ run_raised

----------------------------------------------------------------------------
(* C11, as stated: once at_exit is past waitForDone, every action handed   *)
(* to the pool has had its actionFinished signal.                          *)

C11_Original ==
    (at_exit_pc \notin {"idle", "waitForDone"})
    => /\ \A id \in DOMAIN workers : Finished(id)
       /\ PoolCount("actionFinished") = Len(workers)

(* C11, amended: once at_exit is past waitForDone, every action handed to  *)
(* the pool has had its actionFinished signal or was removed from the      *)
(* queue by the failure of an earlier action, and none is in flight.       *)

C11_FinishedOrPurgedBeforeExit ==
    (at_exit_pc \notin {"idle", "waitForDone"})
    => /\ \A id \in DOMAIN workers : Finished(id) \/ id \in purged
       /\ PoolCount("actionFinished") = Len(workers) - Cardinality(purged)
       /\ InFlight = {}

\* at_exit is past waitForDone after three actions that all finished
C11_Witness ==
    /\ at_exit_pc = "stopped_set"
    /\ Len(workers) = 3
    /\ \A id \in DOMAIN workers : Finished(id)

----------------------------------------------------------------------------
(* C12: at_exit runs at most once and in order: the logging worker is told *)
(* to stop only when no Worker runs or waits, the disposal record is       *)
(* written only when the logging thread has finished, it is written once   *)
(* and it names the project.                                               *)

C12_TeardownOrder ==
    /\ (at_exit_pc # "idle") => (_finalizer # None /\ init_pc = "done")
    /\ stopped <=> (at_exit_pc \in {"thread_wait", "log", "done"})
    /\ stopped => (poolActive = {} /\ queue = <<>> /\ InFlight = {})
    /\ (logging_thread = "finished") => stopped
    /\ (at_exit_pc \in {"log", "done"}) => (logging_thread = "finished")
    /\ Len(module_log) = (IF at_exit_pc = "done" THEN 1 ELSE 0)
    /\ \A i \in DOMAIN module_log :
          module_log[i].name = (IF project = None THEN name ELSE ProjectStr)

\* The teardown of a project on which an action failed has ended
C12_Witness ==
    /\ at_exit_pc = "done"
    /\ project # None
    /\ purged # {}

----------------------------------------------------------------------------
(* C13, as stated: on a handle whose project exists no run() call raises,  *)
(* whatever the action name: a failure, the failure to resolve the name    *)
(* included, only shows as actionFinished(name, false).                    *)

C13_Original ==
    [][(project # None /\ ~run_raised) => ~run_raised']_vars

----------------------------------------------------------------------------
(* C14: once an action has failed the project is still there, an observer  *)
(* of the failure reads lastActionSucceed false and an empty queue, the    *)
(* property stays false until another action finishes, the queue holds     *)
(* only actions handed over after the failure, run() still accepts an      *)
(* action, and an action handed over after the failure is finished, being  *)
(* run, waiting behind a running one, or purged by a later failure.        *)

C14_ReadyAfterFailure ==
    \A i \in Failures :
        /\ HandleState = "Ready"
        /\ ~events[i].last /\ events[i].qlen = 0
        /\ (~\E j \in DOMAIN events : j > i /\ IsFinished(events[j]))
             => ~lastActionSucceed
        /\ \A w \in Range(queue) : w > events[i].nsub
        /\ (Len(workers) < MaxSubmit) => ENABLED Accepted
        /\ \A w \in DOMAIN workers :
             (w > events[i].nsub /\ workers[w].pc = "queued")
             => \/ w \in Range(queue) /\ poolActive # {}
                \/ \E j \in Failures : j > i /\ events[j].nsub >= w

\* An action handed over after a failure has started and finished
C14_Witness ==
    \E i \in Failures :
        \E w \in DOMAIN workers : w > events[i].nsub /\ Started(w) /\ Finished(w)

----------------------------------------------------------------------------
(* C15: as long as qmlLoaded has not been called the init thread has       *)
(* emitted none of its signals and stands before the end of its wait, yet  *)
(* run() on a constructed project accepts an action, and the pool thread   *)
(* can always take its next step: the action goes on to actionFinished     *)
(* without qml_ready.                                                      *)

C15_NotReadyStallsOnlyInit ==
    ~qml_ready
    => /\ init_events = <<>>
       /\ init_pc \in {"construct", "except_name", "except_state",
                       "except_stage", "else_name", "else_state",
                       "else_stage", "finalizer", "wait"}
       /\ (project # None /\ Len(workers) < MaxSubmit) => ENABLED Accepted
       /\ (poolActive # {}) => ENABLED PoolThread
       /\ (queue # <<>>) => (poolActive # {})

\* The init thread waits for qml_ready while an action has failed, a second
\* one has finished and a third one is in flight
C15_Witness ==
    /\ ~qml_ready /\ init_pc = "wait" /\ project # None
    /\ Len(FinishedEvents) = 2 /\ InFlight # {}

----------------------------------------------------------------------------
(* C17: once the except branch of a failed construction has stored the     *)
(* name and the state, in every later state name is the first positional   *)
(* argument when there is one and 'Undefined' otherwise, and state is the  *)
(* INIT_ERROR pseudo-state.                                                *)

----------------------------------------------------------------------------
(* C16, as stated: while no action has failed and the project only gains   *)
(* stages, the value currentStage returns on a handle whose project exists *)
(* never ranks below a value it returned before on such a handle.          *)

C16_Original ==
    ( /\ Failures = {}
      /\ \A id \in DOMAIN workers : workers[id].success
      /\ last_query.prop = "currentStage"
      /\ last_query.project # None )
    => Rank(last_query.stage) >= max_seen

----------------------------------------------------------------------------
(* C18, as stated: the state property of a handle whose project exists is  *)
(* never read, and the project's state never computed, while an action of  *)
(* the handle has started and has not finished.                            *)

C18_Original ==
    (last_query.prop = "state" /\ last_query.project # None)
    => last_query.cur = ""

----------------------------------------------------------------------------
(* C19, as stated: in every state where the project exists, neither the    *)
(* state property nor currentStage shows a pseudo-stage.                   *)

C19_Original ==
    (project # None)
    => /\ stateMap \cap PseudoStages = {}
       /\ currentStage \notin PseudoStages

----------------------------------------------------------------------------
(* C20: run() on a constructed project can always be taken while the bound *)
(* on calls allows it; a Worker handed over while no thread is running is  *)
(* started at once; the queue is never left without a running thread; and, *)
(* with a fair pool thread, every Worker handed over is eventually         *)
(* finished or purged by the failure of an earlier one.                    *)

C20_SubmittedEventuallyFinished ==
    /\ [](( project # None /\ at_exit_pc = "idle" /\ Len(workers) < MaxSubmit)
            => ENABLED Accepted)
    /\ []((queue # <<>>) => (poolActive # {}))
    /\ [][(Len(workers') = Len(workers) + 1 /\ poolActive = {})
            => workers'[Len(workers')].pc = "start"]_vars
    /\ \A id \in 1..MaxSubmit :
         (id \in DOMAIN workers) ~> (Finished(id) \/ id \in purged)

\* Every call the bound allows has been made; one Worker was purged and
\* every other one has finished, one of them after the purge
C20_Witness ==
    /\ Len(workers) = MaxSubmit
    /\ purged # {}
    /\ \A id \in DOMAIN workers : Finished(id) \/ id \in purged
    /\ \E id \in DOMAIN workers : Finished(id) /\ \E p \in purged : p < id

====
